---- MODULE Spec2Model ----
(***************************************************************************)
(* A model of transform.py, the batch-result schema migration script: it   *)
(* reads the legacy "remote_batch" JSON document named by its positional   *)
(* argument, reshapes every task record, validates the reshaped document   *)
(* through bloqade's loads and writes it to <input>.new.                   *)
(*                                                                         *)
(* JSON values are tagged records, one tag per JSON type:                  *)
(*   [null |-> TRUE]  [int |-> n]  [str |-> s]  [arr |-> seq]  [obj |-> f] *)
(* where f is a function from key strings to JSON values.  A Python        *)
(* exception is the value [raise |-> kind]; it propagates through every    *)
(* operator that receives it, as an uncaught exception does.               *)
(***************************************************************************)
EXTENDS Integers, Sequences, FiniteSets, Bags, TLC

\* ------------------------------------------------------------------------
\* Bounds of the model
\* ------------------------------------------------------------------------
MaxTasks == 2

MaxRuns == 2

\* ------------------------------------------------------------------------
\* JSON values and Python's operations on them
\* ------------------------------------------------------------------------
JNull == [null |-> TRUE]

JInt(n) == [int |-> n]

JStr(s) == [str |-> s]

JArr(s) == [arr |-> s]

JObj(f) == [obj |-> f]

EmptyObj == JObj([k \in {} |-> JNull])

Raise(kind) == [raise |-> kind]

IsNull(v) == DOMAIN v = {"null"}

IsInt(v) == DOMAIN v = {"int"}

IsStr(v) == DOMAIN v = {"str"}

IsArr(v) == DOMAIN v = {"arr"}

IsObj(v) == DOMAIN v = {"obj"}

IsRaise(v) == DOMAIN v = {"raise"}

\* v[k] for a string key k: only a dict can be subscripted by a string, a
\* missing key is a KeyError, every other JSON type a TypeError.
Get(v, k) ==
  IF IsRaise(v) THEN v
  ELSE IF IsObj(v)
       THEN IF k \in DOMAIN v.obj THEN v.obj[k] ELSE Raise("KeyError")
       ELSE Raise("TypeError")

\* A sequence enumerating a finite set (the keys of a dict, when a dict is
\* iterated or unpacked).
RECURSIVE SeqOfSet(_)
SeqOfSet(S) ==
  IF S = {} THEN << >>
  ELSE LET x == CHOOSE y \in S : TRUE IN << x >> \o SeqOfSet(S \ {x})

\* iter(v): a list yields its elements, a dict its keys; null and numbers
\* are not iterable.  The result is the list of the values yielded.
Iter(v) ==
  IF IsRaise(v) THEN v
  ELSE IF IsArr(v) THEN v
  ELSE IF IsObj(v) THEN JArr([n \in DOMAIN SeqOfSet(DOMAIN v.obj) |->
                                JStr(SeqOfSet(DOMAIN v.obj)[n])])
  ELSE Raise("TypeError")

\* "tid, task = entry": the entry must be iterable and yield exactly two
\* values.
Unpack(entry) ==
  LET items == Iter(entry) IN
  IF IsRaise(items) THEN items
  ELSE IF Len(items.arr) # 2 THEN Raise("ValueError")
  ELSE items

\* "k in v": key membership for a dict, element membership for a list.  (A
\* string operand would be a substring test; the script applies "in" only
\* to a value it has already subscripted by a string, that is to a dict.)
Contains(v, k) ==
  IF IsObj(v) THEN k \in DOMAIN v.obj
  ELSE IF IsArr(v) THEN \E n \in DOMAIN v.arr : v.arr[n] = JStr(k)
  ELSE FALSE

\* ------------------------------------------------------------------------
\* The per-task conversion, lines 14-37 of transform.py
\* ------------------------------------------------------------------------
BraketTaskTag == "bloqade.task.braket.BraketTask"

RemoteBatchTag == "bloqade.task.batch.RemoteBatch"

\* The first exception among the values of a sequence, in evaluation order;
\* JNull when none of them is an exception.
RECURSIVE FirstRaise(_)
FirstRaise(vals) ==
  IF vals = << >> THEN JNull
  ELSE IF IsRaise(Head(vals)) THEN Head(vals)
  ELSE FirstRaise(Tail(vals))

\* ParallelDecoder copying the wrapper object instead of its inner value.
ParallelDecoder_Wrapper(bt) ==
  IF IsRaise(bt) THEN bt
  ELSE IF ~ (IsObj(bt) \/ IsArr(bt) \/ IsStr(bt)) THEN Raise("TypeError")
  ELSE IF ~ Contains(bt, "parallel_decoder") THEN JNull
  ELSE IF IsNull(Get(bt, "parallel_decoder")) THEN JNull
  ELSE Get(bt, "parallel_decoder")

\* Lines 20-25: the conditional expression computing parallel_decoder.
ParallelDecoder(bt) ==
  IF IsRaise(bt) THEN bt
  ELSE IF ~ (IsObj(bt) \/ IsArr(bt) \/ IsStr(bt)) THEN Raise("TypeError")
  ELSE IF ~ Contains(bt, "parallel_decoder") THEN JNull
  ELSE IF IsNull(Get(bt, "parallel_decoder")) THEN JNull
  ELSE Get(Get(bt, "parallel_decoder"), "parallel_decoder")

\* Tsk keeping the legacy wrapper key and copying no metadata.
Tsk_LegacyKey(backend, parallel_decoder, task_id, task_result_ir, task_ir, metadata) ==
  JObj([braket_task |-> JObj([backend |-> backend,
                              parallel_decoder |-> parallel_decoder,
                              task_id |-> task_id,
                              task_result_ir |-> task_result_ir,
                              task_ir |-> task_ir])])

\* Lines 27-36: the BraketTask object of the target schema.
Tsk(backend, parallel_decoder, task_id, task_result_ir, task_ir, metadata) ==
  JObj(BraketTaskTag :> JObj([backend |-> backend,
                              parallel_decoder |-> parallel_decoder,
                              task_id |-> task_id,
                              task_result_ir |-> task_result_ir,
                              task_ir |-> task_ir,
                              metadata |-> metadata]))

\* ConvertEntry with task_ir and task_result_ir exchanged in the new record.
ConvertEntry_SwappedIr(entry) ==
  LET pair == Unpack(entry)
      tid == IF IsRaise(pair) THEN pair ELSE pair.arr[1]
      task == IF IsRaise(pair) THEN pair ELSE pair.arr[2]
      bt == Get(task, "braket_task")
      task_id == Get(bt, "task_id")
      task_ir == Get(Get(bt, "task_ir"), "quera_task_specification")
      task_result_ir == Get(Get(bt, "task_result_ir"), "task_result_ir")
      backend == Get(Get(bt, "backend"), "braket_backend")
      parallel_decoder == ParallelDecoder(bt)
      metadata == Get(bt, "metadata")
      exc == FirstRaise(<< pair, task_id, task_ir, task_result_ir, backend,
                           parallel_decoder, metadata >>)
  IN IF IsRaise(exc) THEN exc
     ELSE JArr(<< tid, Tsk(backend, parallel_decoder, task_id,
                           task_ir, task_result_ir, metadata) >>)

\* ConvertEntry appending [task_id, tsk] instead of [tid, tsk].
ConvertEntry_TaskIdAsTid(entry) ==
  LET pair == Unpack(entry)
      task == IF IsRaise(pair) THEN pair ELSE pair.arr[2]
      bt == Get(task, "braket_task")
      task_id == Get(bt, "task_id")
      task_ir == Get(Get(bt, "task_ir"), "quera_task_specification")
      task_result_ir == Get(Get(bt, "task_result_ir"), "task_result_ir")
      backend == Get(Get(bt, "backend"), "braket_backend")
      parallel_decoder == ParallelDecoder(bt)
      metadata == Get(bt, "metadata")
      exc == FirstRaise(<< pair, task_id, task_ir, task_result_ir, backend,
                           parallel_decoder, metadata >>)
  IN IF IsRaise(exc) THEN exc
     ELSE JArr(<< task_id, Tsk(backend, parallel_decoder, task_id,
                               task_result_ir, task_ir, metadata) >>)

\* One iteration of the loop on one entry of tasks: the pair [tid, tsk]
\* appended to new_tasks, or the exception the iteration raises.
ConvertEntry(entry) ==
  LET pair == Unpack(entry)
      tid == IF IsRaise(pair) THEN pair ELSE pair.arr[1]
      task == IF IsRaise(pair) THEN pair ELSE pair.arr[2]
      bt == Get(task, "braket_task")
      task_id == Get(bt, "task_id")
      task_ir == Get(Get(bt, "task_ir"), "quera_task_specification")
      task_result_ir == Get(Get(bt, "task_result_ir"), "task_result_ir")
      backend == Get(Get(bt, "backend"), "braket_backend")
      parallel_decoder == ParallelDecoder(bt)
      metadata == Get(bt, "metadata")
      exc == FirstRaise(<< pair, task_id, task_ir, task_result_ir, backend,
                           parallel_decoder, metadata >>)
  IN IF IsRaise(exc) THEN exc
     ELSE JArr(<< tid, Tsk(backend, parallel_decoder, task_id,
                           task_result_ir, task_ir, metadata) >>)

\* ------------------------------------------------------------------------
\* Files: a text is either not JSON at all or the serialization of a JSON
\* value with some indentation; json.load forgets the indentation.
\* ------------------------------------------------------------------------
BadText == [bad |-> "not json"]

\* The content of a file just created or truncated; it is not JSON either.
EmptyText == [bad |-> ""]

Serialized(doc, indent) == [json |-> doc, indent |-> indent]

\* The text made of text t followed by text u, as a write at the end of a
\* file produces it; text after a JSON value makes the whole not JSON.
Cat(t, u) == IF t = EmptyText THEN u ELSE [first |-> t, rest |-> u]

\* json.load / json.loads
Parse(text) ==
  IF "json" \in DOMAIN text THEN text.json ELSE Raise("JSONDecodeError")

\* json.dump(doc, f, indent=indent)
Dump(doc, indent) == Serialized(doc, indent)

NoFile == [exists |-> FALSE, readable |-> FALSE, text |-> BadText]

File(text) == [exists |-> TRUE, readable |-> TRUE, text |-> text]

Unreadable(text) == [exists |-> TRUE, readable |-> FALSE, text |-> text]

\* open(path, "r") followed by f.read()
ReadFile(files, path) ==
  IF ~ files[path].exists THEN Raise("FileNotFoundError")
  ELSE IF ~ files[path].readable THEN Raise("PermissionError")
  ELSE files[path].text

\* A path is the sequence of the strings concatenated to form it.
Script == << "transform.py" >>

InPath == << "batch.json" >>

OtherPath == << "other.json" >>

NewSuffix == << ".new" >>

Paths == { InPath, InPath \o NewSuffix, OtherPath }

\* ------------------------------------------------------------------------
\* The input documents the model runs the script on
\* ------------------------------------------------------------------------
Without(f, k) == [x \in DOMAIN f \ {k} |-> f[x]]

With(f, k, v) == (k :> v) @@ f

\* The braket_task mapping of a well-formed legacy-B task record; n tells
\* the payloads of different tasks apart.
LegacyBraketTask(n) ==
  [task_id |-> JStr(IF n = 1 THEN "arn-1" ELSE "arn-2"),
   task_ir |-> JObj([quera_task_specification |-> JObj([nshots |-> JInt(n)])]),
   task_result_ir |-> JObj([task_result_ir |-> JObj([shots |-> JInt(n)])]),
   backend |-> JObj([braket_backend |->
                       JObj([device |-> JStr(IF n = 1 THEN "aquila" ELSE "sim")])]),
   metadata |-> IF n = 1 THEN EmptyObj ELSE JObj([t |-> JInt(n)])]

Decoder(n) == JObj([mapping |-> JInt(n)])

Entry(tid, bt) == JArr(<< tid, JObj([braket_task |-> JObj(bt)]) >>)

\* Well-formed entries: parallel_decoder absent, null or present.
GoodEntries ==
  UNION { { Entry(JInt(n), LegacyBraketTask(n)),
            Entry(JInt(n), With(LegacyBraketTask(n), "parallel_decoder", JNull)),
            Entry(JInt(n), With(LegacyBraketTask(n), "parallel_decoder",
                                JObj([parallel_decoder |-> Decoder(n)]))) }
          : n \in 1..2 }
  \cup { Entry(JStr("7"), LegacyBraketTask(2)),
         Entry(JInt(1), With(LegacyBraketTask(1), "task_status", JStr("Completed"))) }

NoMetadataEntries == { Entry(JInt(1), Without(LegacyBraketTask(1), "metadata")) }

\* Entries lacking a required field or one of the wrapper keys.
BadEntries ==
  { Entry(JInt(1), Without(LegacyBraketTask(1), k))
      : k \in {"task_id", "task_ir", "task_result_ir", "backend"} }
  \cup { Entry(JInt(1), With(LegacyBraketTask(1), "task_ir", JObj([x |-> JInt(1)]))),
         Entry(JInt(1), With(LegacyBraketTask(1), "task_result_ir", JNull)),
         Entry(JInt(1), With(LegacyBraketTask(1), "backend", JStr("aquila"))),
         Entry(JInt(1), With(LegacyBraketTask(1), "parallel_decoder", Decoder(1))),
         JArr(<< JInt(1), EmptyObj >>),
         JArr(<< JInt(1), JNull >>),
         JArr(<< JInt(1) >>),
         JNull }

Entries == GoodEntries \cup NoMetadataEntries \cup BadEntries

RECURSIVE SeqsUpTo(_, _)
SeqsUpTo(S, n) ==
  IF n = 0 THEN { << >> }
  ELSE LET shorter == SeqsUpTo(S, n - 1)
       IN shorter \cup { Append(q, x) : q \in { r \in shorter : Len(r) = n - 1 }, x \in S }

RemoteBatch(entries) ==
  [source |-> JStr("builder"), name |-> JStr("rabi"), tasks |-> JArr(entries)]

LegacyB(rb) == JObj([remote_batch |-> JObj(rb)])

\* The task record of a legacy schema-A document; n = 1 is the record of
\* the spec's concrete scenario.
LegacyARecord(n) ==
  [task_id |-> JStr(IF n = 1 THEN "abc123" ELSE "def456"),
   hardware_task |-> JObj([task_ir |-> JObj([x |-> JInt(n)]),
                           braket_backend |-> JStr(IF n = 1 THEN "aquila" ELSE "sim")]),
   task_result_ir |-> JObj([y |-> JInt(n + 1)])]

LegacyADoc(results) == JObj([hardware_task_shot_results |-> JObj(results)])

\* The legacy schema-A document of the spec's concrete scenario, which
\* transform.py does not handle.
LegacyA == LegacyADoc("7" :> JObj(LegacyARecord(1)))

\* Documents that are valid JSON but not of the legacy-B shape at the top.
MalformedDocs ==
  { LegacyA, EmptyObj, JNull, JArr(<< >>),
    LegacyB(Without(RemoteBatch(<< >>), "tasks")),
    LegacyB(With(RemoteBatch(<< >>), "tasks", JNull)),
    LegacyB(With(RemoteBatch(<< >>), "tasks", EmptyObj)),
    LegacyB(Without(RemoteBatch(<< Entry(JInt(1), LegacyBraketTask(1)) >>), "source")),
    LegacyB(Without(RemoteBatch(<< Entry(JInt(1), LegacyBraketTask(1)) >>), "name")) }

\* Batches with other values of source and name.
OtherBatches ==
  { LegacyB(With(With(RemoteBatch(<< Entry(JInt(2), LegacyBraketTask(2)) >>),
                      "source", so), "name", na))
      : so \in { JNull, JObj([program |-> JStr("sweep")]) },
        na \in { JNull, JStr("builder") } }

\* A batch with no tasks and other values of source and name.
EmptyBatches ==
  { LegacyB(With(With(RemoteBatch(<< >>),
                      "source", JObj([program |-> JStr("sweep")])), "name", JNull)) }

Docs == { LegacyB(RemoteBatch(es)) : es \in SeqsUpTo(Entries, MaxTasks) }
        \cup MalformedDocs \cup OtherBatches \cup EmptyBatches

InputTexts == { BadText } \cup { Serialized(d, 0) : d \in Docs }
              \cup { Serialized(d, 4) : d \in MalformedDocs }

StaleText == Serialized(JObj([stale |-> JInt(0)]), 2)

\* ------------------------------------------------------------------------
\* The script as a state machine
\* ------------------------------------------------------------------------
VARIABLES
  argv,        \* sys.argv
  fs,          \* the file system: path -> file
  pc,          \* the statement the interpreter is at
  src,         \* line 6/8
  tasks,       \* line 11
  idx,         \* number of entries of tasks the for loop has consumed
  new_tasks,   \* line 13/37
  new_future,  \* line 40
  a,           \* line 48, the object loads returned
  exc,         \* the uncaught exception that ended the run, or JNull
  run,         \* number of invocations of the script so far
  fs0,         \* the file system as it was when this run started
  io,          \* the open and write calls of this run, in order
  outputs,     \* the texts the completed runs so far left in their output
  script,      \* the file of the repository that is being run
  stmt,        \* example scripts: index of the statement the run is at
  filenames,   \* example scripts: the file-name variables assigned so far
  detuning_ratio,  \* example-6-lattice-gauge-theory.py, lines 81-83
  counts,      \* the shot counts of a report, one mapping per task
  probabilities    \* what a probability function returned or raised

\* The variables of the example scripts under src/docs.
exampleVars == << script, stmt, filenames, detuning_ratio, counts, probabilities >>

vars == << argv, fs, pc, src, tasks, idx, new_tasks, new_future, a, exc, run,
           fs0, io, outputs, exampleVars >>

\* While transform.py runs, no example script does.
ExamplesIdle ==
  /\ script = "transform.py"
  /\ stmt = 0
  /\ filenames = << >>
  /\ detuning_ratio = << >>
  /\ counts = << >>
  /\ probabilities = JNull

OutPath == argv[2] \o NewSuffix

\* The interpreter's state when the script starts.
Fresh ==
  /\ pc' = "read"
  /\ src' = JNull
  /\ tasks' = JNull
  /\ idx' = 0
  /\ new_tasks' = << >>
  /\ new_future' = JNull
  /\ a' = JNull
  /\ exc' = JNull

Init ==
  /\ argv \in { Script, Script \o << InPath >> }
  /\ \E inFile \in { NoFile, Unreadable(Serialized(EmptyObj, 0)) }
                     \cup { File(t) : t \in InputTexts },
        outFile \in { NoFile, File(StaleText) } :
       /\ Len(argv) = 1 => inFile = NoFile /\ outFile = NoFile
       /\ fs = [p \in Paths |->
                  IF p = InPath THEN inFile
                  ELSE IF p = InPath \o NewSuffix THEN outFile
                  ELSE File(StaleText)]
  /\ pc = "read"
  /\ src = JNull
  /\ tasks = JNull
  /\ idx = 0
  /\ new_tasks = << >>
  /\ new_future = JNull
  /\ a = JNull
  /\ exc = JNull
  /\ run = 1
  /\ fs0 = fs
  /\ io = << >>
  /\ outputs = << >>
  /\ ExamplesIdle

\* An uncaught exception ends the run.
Fail(e) ==
  /\ pc' = "failed"
  /\ exc' = e

\* ReadInput swallowing the exception and going on with an empty document.
ReadInput_Swallow ==
  /\ pc = "read"
  /\ LET text == IF Len(argv) < 2 THEN Raise("IndexError")
                 ELSE ReadFile(fs, argv[2])
         doc == IF IsRaise(text) THEN text ELSE Parse(text)
     IN /\ src' = IF IsRaise(doc) THEN EmptyObj ELSE doc
        /\ pc' = "tasks"
        /\ UNCHANGED exc
        /\ io' = IF Len(argv) < 2 THEN io
                 ELSE Append(io, [op |-> "open_r", path |-> argv[2]])
  /\ UNCHANGED << exampleVars, outputs, argv, fs, tasks, idx, new_tasks, new_future, a, run, fs0 >>

\* Lines 7-8: open the input read-only and parse it.
ReadInput ==
  /\ pc = "read"
  /\ LET text == IF Len(argv) < 2 THEN Raise("IndexError")
                 ELSE ReadFile(fs, argv[2])
         doc == IF IsRaise(text) THEN text ELSE Parse(text)
     IN /\ IF IsRaise(doc)
           THEN Fail(doc) /\ UNCHANGED src
           ELSE src' = doc /\ pc' = "tasks" /\ UNCHANGED exc
        /\ io' = IF Len(argv) < 2 THEN io
                 ELSE Append(io, [op |-> "open_r", path |-> argv[2]])
  /\ UNCHANGED << exampleVars, outputs, argv, fs, tasks, idx, new_tasks, new_future, a, run, fs0 >>

\* GetTasks reading with defaults: src.get("remote_batch", {}).get("tasks", []).
GetTasks_Defaults ==
  /\ pc = "tasks"
  /\ LET t == Get(Get(src, "remote_batch"), "tasks")
     IN /\ tasks' = IF IsRaise(t) THEN JArr(<< >>) ELSE t
        /\ pc' = "loop"
        /\ UNCHANGED exc
  /\ UNCHANGED << exampleVars, outputs, argv, fs, src, idx, new_tasks, new_future, a, run, fs0, io >>

\* Line 11.
GetTasks ==
  /\ pc = "tasks"
  /\ LET t == Get(Get(src, "remote_batch"), "tasks")
     IN IF IsRaise(t)
        THEN Fail(t) /\ UNCHANGED tasks
        ELSE tasks' = t /\ pc' = "loop" /\ UNCHANGED exc
  /\ UNCHANGED << exampleVars, outputs, argv, fs, src, idx, new_tasks, new_future, a, run, fs0, io >>

\* ConvertTask inserting each converted entry at the front of new_tasks.
ConvertTask_Prepend ==
  /\ pc = "loop"
  /\ LET items == Iter(tasks) IN
     IF IsRaise(items)
     THEN Fail(items) /\ UNCHANGED << idx, new_tasks >>
     ELSE IF idx = Len(items.arr)
     THEN pc' = "future" /\ UNCHANGED << idx, new_tasks, exc >>
     ELSE LET entry == ConvertEntry(items.arr[idx + 1]) IN
          IF IsRaise(entry)
          THEN Fail(entry) /\ UNCHANGED << idx, new_tasks >>
          ELSE /\ new_tasks' = << entry >> \o new_tasks
               /\ idx' = idx + 1
               /\ UNCHANGED << pc, exc >>
  /\ UNCHANGED << exampleVars, outputs, argv, fs, src, tasks, new_future, a, run, fs0, io >>

\* ConvertTask skipping an entry whose conversion raises.
ConvertTask_SkipBad ==
  /\ pc = "loop"
  /\ LET items == Iter(tasks) IN
     IF IsRaise(items)
     THEN Fail(items) /\ UNCHANGED << idx, new_tasks >>
     ELSE IF idx = Len(items.arr)
     THEN pc' = "future" /\ UNCHANGED << idx, new_tasks, exc >>
     ELSE LET entry == ConvertEntry(items.arr[idx + 1]) IN
          /\ new_tasks' = IF IsRaise(entry) THEN new_tasks
                          ELSE Append(new_tasks, entry)
          /\ idx' = idx + 1
          /\ UNCHANGED << pc, exc >>
  /\ UNCHANGED << exampleVars, outputs, argv, fs, src, tasks, new_future, a, run, fs0, io >>

\* ConvertTask taking the first entry before it tests for the end of the
\* list, so that an empty list raises.
ConvertTask_RequireOne ==
  /\ pc = "loop"
  /\ LET items == Iter(tasks) IN
     IF IsRaise(items)
     THEN Fail(items) /\ UNCHANGED << idx, new_tasks >>
     ELSE IF Len(items.arr) = 0
     THEN Fail(Raise("IndexError")) /\ UNCHANGED << idx, new_tasks >>
     ELSE IF idx = Len(items.arr)
     THEN pc' = "future" /\ UNCHANGED << idx, new_tasks, exc >>
     ELSE LET entry == ConvertEntry(items.arr[idx + 1]) IN
          IF IsRaise(entry)
          THEN Fail(entry) /\ UNCHANGED << idx, new_tasks >>
          ELSE /\ new_tasks' = Append(new_tasks, entry)
               /\ idx' = idx + 1
               /\ UNCHANGED << pc, exc >>
  /\ UNCHANGED << exampleVars, outputs, argv, fs, src, tasks, new_future, a, run, fs0, io >>

\* Lines 14-37: one iteration of the for loop, or its end.
ConvertTask ==
  /\ pc = "loop"
  /\ LET items == Iter(tasks) IN
     IF IsRaise(items)
     THEN Fail(items) /\ UNCHANGED << idx, new_tasks >>
     ELSE IF idx = Len(items.arr)
     THEN pc' = "future" /\ UNCHANGED << idx, new_tasks, exc >>
     ELSE LET entry == ConvertEntry(items.arr[idx + 1]) IN
          IF IsRaise(entry)
          THEN Fail(entry) /\ UNCHANGED << idx, new_tasks >>
          ELSE /\ new_tasks' = Append(new_tasks, entry)
               /\ idx' = idx + 1
               /\ UNCHANGED << pc, exc >>
  /\ UNCHANGED << exampleVars, outputs, argv, fs, src, tasks, new_future, a, run, fs0, io >>

\* NewFuture with the values of source and name exchanged.
NewFuture_Swapped(source, name, newTasks) ==
  JObj(RemoteBatchTag :> JObj([source |-> name,
                               name |-> source,
                               tasks |-> JArr(newTasks)]))

\* Lines 40-46.
NewFuture(source, name, newTasks) ==
  JObj(RemoteBatchTag :> JObj([source |-> source,
                               name |-> name,
                               tasks |-> JArr(newTasks)]))

\* BuildFuture going straight to the write, without the loader.
BuildFuture_SkipLoads ==
  /\ pc = "future"
  /\ LET source == Get(Get(src, "remote_batch"), "source")
         name == Get(Get(src, "remote_batch"), "name")
         e == FirstRaise(<< source, name >>)
     IN IF IsRaise(e)
        THEN Fail(e) /\ UNCHANGED new_future
        ELSE /\ new_future' = NewFuture(source, name, new_tasks)
             /\ pc' = "open"
             /\ UNCHANGED exc
  /\ UNCHANGED << exampleVars, outputs, argv, fs, src, tasks, idx, new_tasks, a, run, fs0, io >>

BuildFuture ==
  /\ pc = "future"
  /\ LET source == Get(Get(src, "remote_batch"), "source")
         name == Get(Get(src, "remote_batch"), "name")
         e == FirstRaise(<< source, name >>)
     IN IF IsRaise(e)
        THEN Fail(e) /\ UNCHANGED new_future
        ELSE /\ new_future' = NewFuture(source, name, new_tasks)
             /\ pc' = "loads"
             /\ UNCHANGED exc
  /\ UNCHANGED << exampleVars, outputs, argv, fs, src, tasks, idx, new_tasks, a, run, fs0, io >>

\* Loads with the loader's exception caught and ignored.
Loads_Swallow ==
  /\ pc = "loads"
  /\ \E accepted \in BOOLEAN :
       /\ a' = IF accepted THEN [loaded |-> Parse(Dump(new_future, 0))] ELSE a
       /\ pc' = "open"
       /\ UNCHANGED exc
  /\ UNCHANGED << exampleVars, outputs, argv, fs, src, tasks, idx, new_tasks, new_future, run,
                  fs0, io >>

\* Loads in a script that has opened <input>.new for writing before it
\* validates: the file is created or truncated whatever the loader says.
Loads_OpenedFirst ==
  /\ pc = "loads"
  /\ fs' = [fs EXCEPT ![OutPath] = File(EmptyText)]
  /\ io' = Append(io, [op |-> "open_w", path |-> OutPath])
  /\ \E accepted \in BOOLEAN :
       IF accepted
       THEN /\ a' = [loaded |-> Parse(Dump(new_future, 0))]
            /\ pc' = "open"
            /\ UNCHANGED exc
       ELSE Fail(Raise("LoaderError")) /\ UNCHANGED a
  /\ UNCHANGED << exampleVars, outputs, argv, src, tasks, idx, new_tasks, new_future, run,
                  fs0 >>

\* Line 48: the SDK's loader either accepts the serialized document,
\* returning the object it built, or raises.
Loads ==
  /\ pc = "loads"
  /\ \E accepted \in BOOLEAN :
       IF accepted
       THEN /\ a' = [loaded |-> Parse(Dump(new_future, 0))]
            /\ pc' = "open"
            /\ UNCHANGED exc
       ELSE Fail(Raise("LoaderError")) /\ UNCHANGED a
  /\ UNCHANGED << exampleVars, outputs, argv, fs, src, tasks, idx, new_tasks, new_future, run,
                  fs0, io >>

\* OpenOutput opening <input>.new in append mode: created when absent, not
\* truncated when present.
OpenOutput_Append ==
  /\ pc = "open"
  /\ fs' = [fs EXCEPT ![OutPath] =
              IF fs[OutPath].exists THEN fs[OutPath] ELSE File(EmptyText)]
  /\ io' = Append(io, [op |-> "open_w", path |-> OutPath])
  /\ pc' = "dump"
  /\ UNCHANGED << exampleVars, outputs, argv, src, tasks, idx, new_tasks, new_future, a, exc,
                  run, fs0 >>

\* OpenOutput opening the input path itself for writing.
OpenOutput_InPlace ==
  /\ pc = "open"
  /\ fs' = [fs EXCEPT ![argv[2]] = File(EmptyText)]
  /\ io' = Append(io, [op |-> "open_w", path |-> argv[2]])
  /\ pc' = "dump"
  /\ UNCHANGED << exampleVars, outputs, argv, src, tasks, idx, new_tasks, new_future, a, exc, run,
                  fs0 >>

\* Line 52: open(sys.argv[1] + ".new", "w") creates or truncates the file.
OpenOutput ==
  /\ pc = "open"
  /\ fs' = [fs EXCEPT ![OutPath] = File(EmptyText)]
  /\ io' = Append(io, [op |-> "open_w", path |-> OutPath])
  /\ pc' = "dump"
  /\ UNCHANGED << exampleVars, outputs, argv, src, tasks, idx, new_tasks, new_future, a, exc, run,
                  fs0 >>

\* DumpOutput writing str(new_future), Python's rendering of the dict, which
\* is not JSON (single quotes, None).
DumpOutput_Repr ==
  /\ pc = "dump"
  /\ fs' = [fs EXCEPT ![io[Len(io)].path] =
                 File(Cat(fs[io[Len(io)].path].text, [bad |-> "repr"]))]
  /\ io' = Append(io, [op |-> "write", path |-> io[Len(io)].path])
  /\ outputs' = Append(outputs, fs'[io[Len(io)].path].text)
  /\ pc' = "done"
  /\ UNCHANGED << exampleVars, argv, src, tasks, idx, new_tasks, new_future, a, exc, run,
                  fs0 >>

\* DumpOutput writing the bare task list new_tasks instead of new_future.
DumpOutput_TasksOnly ==
  /\ pc = "dump"
  /\ fs' = [fs EXCEPT ![io[Len(io)].path] =
                 File(Cat(fs[io[Len(io)].path].text, Dump(JArr(new_tasks), 2)))]
  /\ io' = Append(io, [op |-> "write", path |-> io[Len(io)].path])
  /\ outputs' = Append(outputs, fs'[io[Len(io)].path].text)
  /\ pc' = "done"
  /\ UNCHANGED << exampleVars, argv, src, tasks, idx, new_tasks, new_future, a, exc, run,
                  fs0 >>

\* Line 53: json.dump(new_future, f, indent=2), and the file is closed.
DumpOutput ==
  /\ pc = "dump"
  /\ fs' = [fs EXCEPT ![io[Len(io)].path] =
                 File(Cat(fs[io[Len(io)].path].text, Dump(new_future, 2)))]
  /\ io' = Append(io, [op |-> "write", path |-> io[Len(io)].path])
  /\ outputs' = Append(outputs, fs'[io[Len(io)].path].text)
  /\ pc' = "done"
  /\ UNCHANGED << exampleVars, argv, src, tasks, idx, new_tasks, new_future, a, exc, run,
                  fs0 >>

\* The script is invoked again with the same argument and the same input
\* file; <input>.new may have been kept, removed or replaced since.
Invoke ==
  /\ pc \in { "done", "failed" }
  /\ run < MaxRuns
  /\ run' = run + 1
  /\ Fresh
  /\ \E outFile \in { fs[InPath \o NewSuffix], NoFile, File(StaleText) } :
       fs' = [fs EXCEPT ![InPath \o NewSuffix] = outFile]
  /\ fs0' = fs'
  /\ io' = << >>
  /\ UNCHANGED << exampleVars, outputs, argv >>

Next ==
  \/ ReadInput
  \/ GetTasks
  \/ ConvertTask
  \/ BuildFuture
  \/ Loads
  \/ OpenOutput
  \/ DumpOutput
  \/ Invoke

Spec == Init /\ [][Next]_vars

\* ------------------------------------------------------------------------
\* The schema-A variant of the script.  Its source is not among the files
\* of the repository; it is modelled from the specification's per-task rule
\* (A -> target), with the reading and writing steps of transform.py.
\* ------------------------------------------------------------------------
\* integer(source key): the decimal strings of the model and their values;
\* any other string is a ValueError.
DecimalValue == ("7" :> 7) @@ ("12" :> 12) @@ ("007" :> 7)

StrToInt(s) ==
  IF s \in DOMAIN DecimalValue THEN JInt(DecimalValue[s]) ELSE Raise("ValueError")

BraketTaskA(backend, parallel_decoder, task_id, task_result_ir, task_ir) ==
  JObj([braket_task |->
          JObj([backend |-> JObj([braket_backend |-> backend]),
                parallel_decoder |-> parallel_decoder,
                task_id |-> task_id,
                task_result_ir |-> JObj([task_result_ir |-> task_result_ir]),
                task_ir |-> JObj([quera_task_specification |-> task_ir]),
                metadata |-> EmptyObj])])

\* ConvertEntryA keeping the source key, a string, as the identifier.
ConvertEntryA_KeyAsId(key, task) ==
  LET ht == Get(task, "hardware_task")
      backend == Get(ht, "braket_backend")
      parallel_decoder == IF Contains(ht, "parallel_decoder")
                          THEN Get(ht, "parallel_decoder") ELSE JNull
      task_result_ir == Get(task, "task_result_ir")
      task_ir == Get(ht, "task_ir")
      task_id == Get(task, "task_id")
      e == FirstRaise(<< StrToInt(key), backend, parallel_decoder,
                         task_result_ir, task_ir, task_id >>)
  IN IF IsRaise(e) THEN e
     ELSE JArr(<< JStr(key), BraketTaskA(backend, parallel_decoder, task_id,
                                         task_result_ir, task_ir) >>)

\* ConvertEntryA taking task_ir from the record itself, where the result
\* lives, instead of from hardware_task.
ConvertEntryA_ResultAsIr(key, task) ==
  LET tid == StrToInt(key)
      ht == Get(task, "hardware_task")
      backend == Get(ht, "braket_backend")
      parallel_decoder == IF Contains(ht, "parallel_decoder")
                          THEN Get(ht, "parallel_decoder") ELSE JNull
      task_result_ir == Get(task, "task_result_ir")
      task_ir == Get(task, "task_result_ir")
      task_id == Get(task, "task_id")
      e == FirstRaise(<< tid, backend, parallel_decoder, task_result_ir,
                         task_ir, task_id >>)
  IN IF IsRaise(e) THEN e
     ELSE JArr(<< tid, BraketTaskA(backend, parallel_decoder, task_id,
                                   task_result_ir, task_ir) >>)

\* The per-task conversion rule (A -> target) on one entry key: task of
\* hardware_task_shot_results.
ConvertEntryA(key, task) ==
  LET tid == StrToInt(key)
      ht == Get(task, "hardware_task")
      backend == Get(ht, "braket_backend")
      parallel_decoder == IF Contains(ht, "parallel_decoder")
                          THEN Get(ht, "parallel_decoder") ELSE JNull
      task_result_ir == Get(task, "task_result_ir")
      task_ir == Get(ht, "task_ir")
      task_id == Get(task, "task_id")
      e == FirstRaise(<< tid, backend, parallel_decoder, task_result_ir,
                         task_ir, task_id >>)
  IN IF IsRaise(e) THEN e
     ELSE JArr(<< tid, BraketTaskA(backend, parallel_decoder, task_id,
                                   task_result_ir, task_ir) >>)

\* The schema-A input documents of the model.
KeysA == { "7", "12", "007", "x1" }

RecordsA ==
  UNION { { JObj(LegacyARecord(n)),
            JObj(With(LegacyARecord(n), "hardware_task",
                      JObj(With(LegacyARecord(n).hardware_task.obj,
                                "parallel_decoder", Decoder(n))))) }
          : n \in 1..2 }
  \cup { JObj(Without(LegacyARecord(1), "hardware_task")),
         JObj(Without(LegacyARecord(2), "task_result_ir")) }

DocsA ==
  { LegacyADoc(m) :
      m \in UNION { [S -> RecordsA] :
                      S \in { T \in SUBSET KeysA : Cardinality(T) <= MaxTasks } } }
  \cup { EmptyObj }

InitA ==
  /\ argv = Script \o << InPath >>
  /\ \E d \in DocsA :
       fs = [p \in Paths |->
               IF p = InPath THEN File(Serialized(d, 0))
               ELSE IF p = InPath \o NewSuffix THEN NoFile
               ELSE File(StaleText)]
  /\ pc = "read"
  /\ src = JNull
  /\ tasks = JNull
  /\ idx = 0
  /\ new_tasks = << >>
  /\ new_future = JNull
  /\ a = JNull
  /\ exc = JNull
  /\ run = 1
  /\ fs0 = fs
  /\ io = << >>
  /\ outputs = << >>
  /\ ExamplesIdle

\* tasks = src["hardware_task_shot_results"]
GetTasksA ==
  /\ pc = "tasks"
  /\ LET t == Get(src, "hardware_task_shot_results")
     IN IF IsRaise(t)
        THEN Fail(t) /\ UNCHANGED tasks
        ELSE tasks' = t /\ pc' = "loop" /\ UNCHANGED exc
  /\ UNCHANGED << exampleVars, outputs, argv, fs, src, idx, new_tasks, new_future, a, run,
                  fs0, io >>

\* One iteration over the items of the mapping, or the end of the loop.
ConvertTaskA ==
  /\ pc = "loop"
  /\ LET keys == Iter(tasks) IN
     IF IsRaise(keys)
     THEN Fail(keys) /\ UNCHANGED << idx, new_tasks >>
     ELSE IF idx = Len(keys.arr)
     THEN pc' = "future" /\ UNCHANGED << idx, new_tasks, exc >>
     ELSE LET key == keys.arr[idx + 1].str
              entry == ConvertEntryA(key, Get(tasks, key))
          IN IF IsRaise(entry)
             THEN Fail(entry) /\ UNCHANGED << idx, new_tasks >>
             ELSE /\ new_tasks' = Append(new_tasks, entry)
                  /\ idx' = idx + 1
                  /\ UNCHANGED << pc, exc >>
  /\ UNCHANGED << exampleVars, outputs, argv, fs, src, tasks, new_future, a, run, fs0, io >>

\* The output document holding the converted task sequence; this variant
\* does not pass it through the loader.
BuildFutureA ==
  /\ pc = "future"
  /\ new_future' = JObj([tasks |-> JArr(new_tasks)])
  /\ pc' = "open"
  /\ UNCHANGED << exampleVars, outputs, argv, fs, src, tasks, idx, new_tasks, a, exc, run,
                  fs0, io >>

NextA ==
  \/ ReadInput
  \/ GetTasksA
  \/ ConvertTaskA
  \/ BuildFutureA
  \/ OpenOutput
  \/ DumpOutput

SpecA == InitA /\ [][NextA]_vars

\* ------------------------------------------------------------------------
\* Vocabulary of the properties
\* ------------------------------------------------------------------------
HasArg == Len(argv) = 2

\* The document held by the input file, or the exception reading it raises.
InDoc == LET text == ReadFile(fs, InPath)
         IN IF IsRaise(text) THEN text ELSE Parse(text)

\* The task entries of the input document (a list), or an exception.
InTasks == Iter(Get(Get(InDoc, "remote_batch"), "tasks"))

\* The document held by <input>.new and its task entries.
OutDoc == Parse(fs[InPath \o NewSuffix].text)

OutTasks == OutDoc.obj[RemoteBatchTag].obj.tasks.arr

LegacyFields(entry) == entry.arr[2].obj.braket_task.obj

MigratedFields(entry) == entry.arr[2].obj[BraketTaskTag].obj

Ids(entries) == [i \in DOMAIN entries |-> entries[i].arr[1]]

BagOfSeq(q) ==
  [x \in { q[i] : i \in DOMAIN q } |-> Cardinality({ i \in DOMAIN q : q[i] = x })]

OutputUntouched ==
  /\ fs = fs0
  /\ \A k \in DOMAIN io : io[k].op = "open_r"

\* C1: in a completed migration every task of the written document carries
\* the input task's task_ir, task_result_ir and backend with the wrapper key
\* removed, and its task_id and metadata unchanged.
C1_PayloadCopiedVerbatim ==
  pc = "done" =>
    \A i \in DOMAIN InTasks.arr :
      /\ i \in DOMAIN OutTasks
      /\ LET old == LegacyFields(InTasks.arr[i])
             new == MigratedFields(OutTasks[i])
         IN /\ new.task_ir = old.task_ir.obj.quera_task_specification
            /\ new.task_result_ir = old.task_result_ir.obj.task_result_ir
            /\ new.backend = old.backend.obj.braket_backend
            /\ new.task_id = old.task_id
            /\ new.metadata = old.metadata

C1_Witness ==
  /\ pc = "done"
  /\ Len(InTasks.arr) = 2
  /\ LegacyFields(InTasks.arr[1]).metadata # LegacyFields(InTasks.arr[2]).metadata
  /\ MigratedFields(OutTasks[2]).metadata # EmptyObj
  /\ "parallel_decoder" \in DOMAIN LegacyFields(InTasks.arr[1])

\* C2: the task identifiers of the written document are those of the input
\* document, each as many times as in the input, and there are as many task
\* entries as in the input.
C2_IdentifiersPreserved ==
  pc = "done" =>
    /\ Len(OutTasks) = Len(InTasks.arr)
    /\ BagOfSeq(Ids(OutTasks)) = BagOfSeq(Ids(InTasks.arr))

C2_Witness ==
  /\ pc = "done"
  /\ Len(InTasks.arr) = 2
  /\ Ids(InTasks.arr)[1] = Ids(InTasks.arr)[2]
  /\ InTasks.arr[1] # InTasks.arr[2]
  /\ BagOfSeq(Ids(OutTasks)) = SetToBag({ JInt(2) }) (+) SetToBag({ JInt(2) })

\* C3: the i-th task entry of the written document is the conversion of
\* the i-th task entry of the input document.
C3_OrderPreserved ==
  pc = "done" =>
    /\ DOMAIN OutTasks = DOMAIN InTasks.arr
    /\ \A i \in DOMAIN OutTasks : OutTasks[i] = ConvertEntry(InTasks.arr[i])

C3_Witness ==
  /\ pc = "done"
  /\ Len(OutTasks) = 2
  /\ Ids(InTasks.arr) = << JInt(2), JInt(1) >>
  /\ Ids(OutTasks) = << JInt(2), JInt(1) >>

\* The entry is a pair whose task record has task_id, task_ir, task_result_ir
\* and backend, each under its wrapper keys.
RequiredPresent(entry) ==
  LET pair == Unpack(entry)
      bt == IF IsRaise(pair) THEN pair ELSE Get(pair.arr[2], "braket_task")
  IN ~ IsRaise(FirstRaise(<< Get(bt, "task_id"),
                             Get(Get(bt, "task_ir"), "quera_task_specification"),
                             Get(Get(bt, "task_result_ir"), "task_result_ir"),
                             Get(Get(bt, "backend"), "braket_backend") >>))

\* The run ended with an exception raised while converting the i-th entry.
FailedAt(i) ==
  /\ pc = "failed"
  /\ ~ IsRaise(Iter(tasks))
  /\ idx = i - 1
  /\ i <= Len(Iter(tasks).arr)

\* C4: a task record that has its required fields and whose braket_task has
\* no parallel_decoder key, or a null one, is converted without failure and
\* its migrated task has parallel_decoder = null.
C4_DecoderDefaultsToNull ==
  HasArg /\ IsArr(InTasks) =>
    \A i \in DOMAIN InTasks.arr :
      LET e == InTasks.arr[i] IN
      ( /\ RequiredPresent(e)
        /\ \/ "parallel_decoder" \notin DOMAIN LegacyFields(e)
           \/ LegacyFields(e).parallel_decoder = JNull )
      => /\ ~ FailedAt(i)
         /\ i <= Len(new_tasks) =>
              MigratedFields(new_tasks[i]).parallel_decoder = JNull

\* C5: a task record that has no metadata field (and is well-formed
\* otherwise) is converted without failure and its migrated task has
\* metadata = {}.
C5_MissingMetadataDefaultsToEmpty ==
  HasArg /\ IsArr(InTasks) =>
    \A i \in DOMAIN InTasks.arr :
      LET e == InTasks.arr[i] IN
      ( /\ RequiredPresent(e)
        /\ ~ IsRaise(ParallelDecoder(JObj(LegacyFields(e))))
        /\ "metadata" \notin DOMAIN LegacyFields(e) )
      => /\ ~ FailedAt(i)
         /\ i <= Len(new_tasks) =>
              MigratedFields(new_tasks[i]).metadata = EmptyObj

\* C6: when the input document has no top-level key remote_batch, the run
\* never gets past line 11, ends in failure, and <input>.new is neither
\* created nor written.
C6_MissingRemoteBatchFails ==
  HasArg /\ ~ IsRaise(InDoc) /\ IsRaise(Get(InDoc, "remote_batch")) =>
    /\ pc \in { "read", "tasks", "failed" }
    /\ new_tasks = << >>
    /\ OutputUntouched

C6_Witness ==
  /\ pc = "failed"
  /\ InDoc = LegacyA
  /\ exc = Raise("KeyError")
  /\ ~ fs[InPath \o NewSuffix].exists

\* C7: when some task record, at any position, lacks a required field or
\* one of the wrapper keys, the run never converts that record nor any after
\* it, never leaves the loop except by failing, and writes no output file.
C7_MissingRequiredFieldFails ==
  HasArg /\ IsArr(InTasks) =>
    \A i \in DOMAIN InTasks.arr :
      ~ RequiredPresent(InTasks.arr[i]) =>
        /\ pc \in { "read", "tasks", "loop", "failed" }
        /\ idx < i
        /\ Len(new_tasks) < i
        /\ OutputUntouched

C7_Witness ==
  /\ pc = "failed"
  /\ IsArr(InTasks)
  /\ Len(InTasks.arr) = 2
  /\ RequiredPresent(InTasks.arr[1])
  /\ ~ RequiredPresent(InTasks.arr[2])
  /\ Len(new_tasks) = 1
  /\ FailedAt(2)
  /\ ~ fs[InPath \o NewSuffix].exists

\* C8: the output file is opened and written only in a run whose reshaped
\* document the loader has accepted; when the loader raises, the file is
\* never opened, created or written.
C8_WriteOnlyAfterValidation ==
  /\ (\E k \in DOMAIN io : io[k].op \in { "open_w", "write" })
       => a = [loaded |-> new_future]
  /\ fs # fs0 => a = [loaded |-> new_future]
  /\ exc = Raise("LoaderError") => pc = "failed" /\ OutputUntouched

C8_Witness ==
  /\ pc = "failed"
  /\ exc = Raise("LoaderError")
  /\ new_future # JNull
  /\ a = JNull
  /\ ~ fs[InPath \o NewSuffix].exists

\* C9: when the input path does not exist or is unreadable, or its content
\* is not valid JSON, the run fails at the read, before any transformation
\* step, and no output file is written.
C9_UnreadableInputAborts ==
  HasArg /\ IsRaise(InDoc) =>
    /\ pc \in { "read", "failed" }
    /\ src = JNull /\ tasks = JNull /\ idx = 0
    /\ new_tasks = << >> /\ new_future = JNull /\ a = JNull
    /\ OutputUntouched

C9_Witness ==
  /\ pc = "failed"
  /\ exc = Raise("JSONDecodeError")
  /\ fs[InPath].text = BadText
  /\ ~ fs[InPath \o NewSuffix].exists

\* C10: in every run the input file (and every file other than
\* <input>.new) holds what it held when the run started; the input is only
\* opened for reading and only <input>.new is opened for writing or written.
C10_InputFileUnchanged ==
  /\ \A p \in Paths \ { InPath \o NewSuffix } : fs[p] = fs0[p]
  /\ \A k \in DOMAIN io :
       IF io[k].op = "open_r" THEN io[k].path = InPath
       ELSE io[k].path = InPath \o NewSuffix

C10_Witness ==
  /\ pc = "done"
  /\ fs[InPath].exists
  /\ fs[InPath] = fs0[InPath]
  /\ fs[InPath \o NewSuffix] # fs0[InPath \o NewSuffix]
  /\ Len(io) = 3

\* C11: every completed run on the same input file leaves the same text in
\* <input>.new, whatever <input>.new held when the run started.
C11_RerunSameOutput ==
  /\ \A i, j \in DOMAIN outputs : outputs[i] = outputs[j]
  /\ pc = "done" => fs[InPath \o NewSuffix] = File(outputs[Len(outputs)])

C11_Witness ==
  /\ pc = "done"
  /\ run = 2
  /\ Len(outputs) = 2
  /\ fs0[InPath \o NewSuffix] = File(outputs[1])
  /\ fs[InPath \o NewSuffix] = File(outputs[1])
  /\ Len(InTasks.arr) = 2

\* C12: a completed run has written exactly once, to the path made of its
\* positional argument followed by ".new" and to no other; that file holds
\* the JSON serialization of the target-schema document new_future.
C12_WrittenToNewSuffix ==
  pc = "done" =>
    /\ { io[k].path : k \in { n \in DOMAIN io : io[n].op # "open_r" } }
         = { argv[2] \o NewSuffix }
    /\ Cardinality({ k \in DOMAIN io : io[k].op = "write" }) = 1
    /\ fs[argv[2] \o NewSuffix].exists
    /\ "json" \in DOMAIN fs[argv[2] \o NewSuffix].text
    /\ Parse(fs[argv[2] \o NewSuffix].text) = new_future
    /\ DOMAIN new_future.obj = { RemoteBatchTag }
    /\ \A p \in Paths \ { argv[2] \o NewSuffix } : fs[p] = fs0[p]

C12_Witness ==
  /\ pc = "done"
  /\ ~ fs0[argv[2] \o NewSuffix].exists
  /\ fs[argv[2] \o NewSuffix] = File(Serialized(new_future, 2))
  /\ Len(new_tasks) = 1

C14_TaggedUnionShape ==
  pc = "done" =>
    /\ IsObj(OutDoc)
    /\ DOMAIN OutDoc.obj = { RemoteBatchTag }
    /\ IsObj(OutDoc.obj[RemoteBatchTag])
    /\ DOMAIN OutDoc.obj[RemoteBatchTag].obj = { "source", "name", "tasks" }
    /\ IsArr(OutDoc.obj[RemoteBatchTag].obj.tasks)
    /\ \A i \in DOMAIN OutTasks :
         /\ IsArr(OutTasks[i])
         /\ Len(OutTasks[i].arr) = 2
         /\ IsObj(OutTasks[i].arr[2])
         /\ DOMAIN OutTasks[i].arr[2].obj = { BraketTaskTag }
         /\ IsObj(OutTasks[i].arr[2].obj[BraketTaskTag])
         /\ DOMAIN MigratedFields(OutTasks[i]) =
              { "backend", "parallel_decoder", "task_id", "task_result_ir",
                "task_ir", "metadata" }

C14_Witness ==
  /\ pc = "done"
  /\ Len(OutTasks) = 1
  /\ "task_status" \in DOMAIN LegacyFields(InTasks.arr[1])
  /\ "task_status" \notin DOMAIN MigratedFields(OutTasks[1])
  /\ "parallel_decoder" \notin DOMAIN LegacyFields(InTasks.arr[1])
  /\ "parallel_decoder" \in DOMAIN MigratedFields(OutTasks[1])

\* The task entries of the document the schema-A variant has written.
OutTasksA == OutDoc.obj.tasks.arr

\* The entries of hardware_task_shot_results of the input document and
\* their keys in iteration order.
ResultsA == InDoc.obj.hardware_task_shot_results.obj

KeyOrderA == Iter(JObj(ResultsA)).arr

\* C15: a completed schema-A migration has written one task entry for every
\* entry of hardware_task_shot_results: its identifier is the integer value
\* of the source key, backend, task_ir and task_result_ir are the source
\* values under their wrapper keys, parallel_decoder is the source's when
\* present and null otherwise, and metadata is {}.
C15_SchemaAConversion ==
  pc = "done" =>
    /\ Len(OutTasksA) = Cardinality(DOMAIN ResultsA)
    /\ \A i \in DOMAIN OutTasksA :
         LET key == KeyOrderA[i].str
             record == ResultsA[key].obj
             ht == record.hardware_task.obj
             new == OutTasksA[i].arr[2].obj.braket_task.obj
         IN /\ OutTasksA[i].arr[1] = JInt(DecimalValue[key])
            /\ new.backend = JObj([braket_backend |-> ht.braket_backend])
            /\ new.task_ir = JObj([quera_task_specification |-> ht.task_ir])
            /\ new.task_result_ir = JObj([task_result_ir |-> record.task_result_ir])
            /\ new.parallel_decoder =
                 IF "parallel_decoder" \in DOMAIN ht THEN ht.parallel_decoder
                 ELSE JNull
            /\ new.metadata = EmptyObj

C15_Witness ==
  /\ pc = "done"
  /\ DOMAIN ResultsA = { "007", "12" }
  /\ { OutTasksA[i].arr[1] : i \in DOMAIN OutTasksA } = { JInt(7), JInt(12) }
  /\ "parallel_decoder" \in DOMAIN ResultsA["12"].obj.hardware_task.obj
  /\ "parallel_decoder" \notin DOMAIN ResultsA["007"].obj.hardware_task.obj
  /\ ResultsA["007"] # ResultsA["12"]

\* C16: migrating the scenario document, whose hardware_task_shot_results
\* has the single key "7", writes exactly the one task entry the
\* specification gives.
C16_ConcreteScenario ==
  pc = "done" /\ InDoc = LegacyA =>
    OutTasksA =
      << JArr(<< JInt(7),
                 JObj([braket_task |->
                   JObj([backend |-> JObj([braket_backend |-> JStr("aquila")]),
                         parallel_decoder |-> JNull,
                         task_id |-> JStr("abc123"),
                         task_result_ir |->
                           JObj([task_result_ir |-> JObj([y |-> JInt(2)])]),
                         task_ir |->
                           JObj([quera_task_specification |-> JObj([x |-> JInt(1)])]),
                         metadata |-> EmptyObj])]) >>) >>

C16_Witness ==
  /\ pc = "done"
  /\ InDoc = LegacyA
  /\ Len(OutTasksA) = 1
  /\ OutTasksA[1].arr[1] = JInt(7)
  /\ fs[InPath \o NewSuffix].exists

\* C17: a task record whose parallel_decoder is present and not null is
\* migrated with parallel_decoder equal to the inner value under the wrapper
\* key.
C17_DecoderUnwrapped ==
  pc = "done" =>
    \A i \in DOMAIN InTasks.arr :
      LET old == LegacyFields(InTasks.arr[i]) IN
      "parallel_decoder" \in DOMAIN old /\ old.parallel_decoder # JNull =>
        MigratedFields(OutTasks[i]).parallel_decoder =
          old.parallel_decoder.obj.parallel_decoder

C17_Witness ==
  /\ pc = "done"
  /\ Len(OutTasks) = 2
  /\ "parallel_decoder" \in DOMAIN LegacyFields(InTasks.arr[2])
  /\ LegacyFields(InTasks.arr[2]).parallel_decoder =
       JObj([parallel_decoder |-> Decoder(2)])
  /\ MigratedFields(OutTasks[2]).parallel_decoder = Decoder(2)
  /\ MigratedFields(OutTasks[1]).parallel_decoder = JNull

\* C18: the written document's source and name are the input document's
\* remote_batch.source and remote_batch.name.
C18_SourceAndNameCopied ==
  pc = "done" =>
    /\ OutDoc.obj[RemoteBatchTag].obj.source = InDoc.obj.remote_batch.obj.source
    /\ OutDoc.obj[RemoteBatchTag].obj.name = InDoc.obj.remote_batch.obj.name

C18_Witness ==
  /\ pc = "done"
  /\ InDoc.obj.remote_batch.obj.source = JObj([program |-> JStr("sweep")])
  /\ InDoc.obj.remote_batch.obj.name = JNull
  /\ OutDoc.obj[RemoteBatchTag].obj.name = JNull
  /\ OutDoc.obj[RemoteBatchTag].obj.source # JNull

\* The calls a run makes on files, in order, when it runs to completion.
FullIo ==
  << [op |-> "open_r", path |-> InPath],
     [op |-> "open_w", path |-> InPath \o NewSuffix],
     [op |-> "write", path |-> InPath \o NewSuffix] >>

\* One step of a run: the statement it leaves, the statement it reaches and
\* the file call it makes.
StepOrder ==
  /\ pc = "read" => /\ pc' \in { "tasks", "failed" }
                    /\ io' = IF HasArg THEN << FullIo[1] >> ELSE << >>
  /\ pc = "tasks" => pc' \in { "loop", "failed" } /\ io' = io
  /\ pc = "loop" => /\ pc' \in { "loop", "future", "failed" }
                    /\ io' = io
                    /\ pc' = "loop" => idx' = idx + 1
  /\ pc = "future" => pc' \in { "loads", "failed" } /\ io' = io
  /\ pc = "loads" => pc' \in { "open", "failed" } /\ io' = io
  /\ pc = "open" => pc' = "dump" /\ io' = Append(io, FullIo[2])
  /\ pc = "dump" => pc' = "done" /\ io' = Append(io, FullIo[3])
  /\ pc \in { "done", "failed" } => pc' = "read" /\ io' = << >>

\* C19: within a run the steps follow the order read, convert, validate,
\* write; the input is read once, before any conversion, and the output is
\* opened and written at most once, as the last steps.
C19_StepsInOrder ==
  /\ [](/\ Len(io) <= 3
        /\ \A k \in DOMAIN io : io[k] = FullIo[k]
        /\ pc \in { "tasks", "loop", "future", "loads" } => Len(io) = 1
        /\ idx > 0 => Len(io) >= 1)
  /\ [][StepOrder]_vars

C19_Witness ==
  /\ pc = "done"
  /\ io = FullIo
  /\ idx = 2
  /\ a # JNull

\* C20: the document a run has written to <input>.new is the document the
\* loader was given and accepted in that run.
C20_WrittenIsValidated ==
  /\ pc \in { "open", "dump", "done" } => a # JNull /\ a.loaded = new_future
  /\ (\E k \in DOMAIN io : io[k].op = "write") =>
       /\ a # JNull
       /\ fs[io[Len(io)].path].text = Dump(a.loaded, 2)
       /\ OutDoc = a.loaded

C20_Witness ==
  /\ pc = "done"
  /\ a # JNull
  /\ OutDoc = a.loaded
  /\ Len(OutTasks) = 1
  /\ fs0[InPath \o NewSuffix] = File(StaleText)

\* C21: when a run fails, at any step up to and including the loader's
\* validation, an <input>.new file that an earlier run left is unchanged:
\* it still exists with the text it had when the run started, and the run
\* has neither opened it for writing nor written to it.
C21_FailedRunKeepsOldOutput ==
  (pc = "failed" /\ HasArg /\ fs0[InPath \o NewSuffix].exists) =>
    /\ fs[InPath \o NewSuffix].exists
    /\ fs[InPath \o NewSuffix].text = fs0[InPath \o NewSuffix].text
    /\ fs[InPath \o NewSuffix] = fs0[InPath \o NewSuffix]
    /\ \A k \in DOMAIN io : io[k].path # InPath \o NewSuffix

C21_Witness ==
  /\ pc = "failed"
  /\ exc = Raise("LoaderError")
  /\ run = 2
  /\ Len(outputs) = 1
  /\ fs0[InPath \o NewSuffix] = File(outputs[1])
  /\ fs[InPath \o NewSuffix] = File(outputs[1])

\* The RemoteBatch document the script builds from a legacy-B document
\* whose tasks list is empty.
EmptyBatch ==
  JObj(RemoteBatchTag :>
         JObj([source |-> InDoc.obj.remote_batch.obj.source,
               name |-> InDoc.obj.remote_batch.obj.name,
               tasks |-> JArr(<< >>)]))

\* The input is a legacy-B document with source and name whose tasks is
\* the empty list.
EmptyTasksInput ==
  /\ HasArg
  /\ IsObj(InDoc)
  /\ IsObj(Get(InDoc, "remote_batch"))
  /\ DOMAIN InDoc.obj.remote_batch.obj = { "source", "name", "tasks" }
  /\ InDoc.obj.remote_batch.obj.tasks = JArr(<< >>)

\* C22: a legacy-B document whose tasks list is empty passes the conversion
\* loop without an exception; the document built from it is a RemoteBatch
\* with an empty tasks list and the input's source and name; the only
\* exception such a run can end with is the loader's, and when the loader
\* accepts, that document is what is written.
C22_EmptyTasksConverted ==
  EmptyTasksInput =>
    /\ new_tasks = << >> /\ idx = 0
    /\ pc = "failed" => exc = Raise("LoaderError") /\ new_future = EmptyBatch
    /\ pc \in { "loads", "open", "dump", "done" } => new_future = EmptyBatch
    /\ pc = "done" => OutDoc = EmptyBatch /\ OutTasks = << >>

C22_Witness ==
  /\ EmptyTasksInput
  /\ pc = "done"
  /\ OutDoc = EmptyBatch
  /\ OutTasks = << >>
  /\ InDoc.obj.remote_batch.obj.name = JNull
  /\ OutDoc.obj[RemoteBatchTag].obj.source = JObj([program |-> JStr("sweep")])

\* ------------------------------------------------------------------------
\* The example scripts under src/docs: the data directory, the result
\* files, the emulator runs and hardware submissions
\* ------------------------------------------------------------------------
\* The variables of transform.py, which no example script touches.
transformVars == << src, tasks, idx, new_tasks, new_future, a, outputs >>

\* os.path.abspath(""): the directory the script is run in.
Cwd == << "cwd" >>

\* os.path.join(dir, *names).
Join(dir, names) == dir \o names

\* The directory holding a path.
Parent(path) == SubSeq(path, 1, Len(path) - 1)

\* The relative path "data", resolved against the working directory.
DataDir == Join(Cwd, << "data" >>)

\* A directory, and the tests os.path.isdir and os.path.isfile.
Dir == [exists |-> TRUE, dir |-> TRUE]

IsDir(f) == f.exists /\ "dir" \in DOMAIN f

IsFile(f) == f.exists /\ "text" \in DOMAIN f

\* The statements of an example script that touch the file system.
MkData == [op |-> "mkdata"]

Guard(var, name, job, indent) ==
  [op |-> "guard", var |-> var, name |-> name, job |-> job, indent |-> indent]

LoadStmt(var) == [op |-> "load", var |-> var]

DetuningStmt == [op |-> "detuning_ratio"]

\* example-2-lp-gate.py, line 55: the names of the geometries, in the
\* order of the dict.
Geometries == << "1-atom", "2-atom" >>

TimeSweep == "docs/examples/example-3-time-sweep.py"

Rabi == "docs/docs/examples/example-1-rabi.py"

LpGate == "docs/docs/examples/example-2-lp-gate.py"

LatticeGauge == "docs/examples/example-6-lattice-gauge-theory.py"

MisUdg == "docs/examples/example-5-MIS-UDG.py"

ExampleScripts == { TimeSweep, Rabi, LpGate, LatticeGauge, MisUdg }

\* The statements of each script, in the order the script runs them.
TimeSweepProgram ==
  << MkData,
     Guard("emu_filename", "time-sweep-emulation.json", "run", 0),
     Guard("filename", "time-sweep-job.json", "run_async", 0),
     LoadStmt("emu_filename"),
     LoadStmt("filename") >>

RabiProgram ==
  << Guard("emu_filename", "rabi-emulation.json", "run", 0),
     Guard("hardware_filename", "rabi-job.json", "run_async", 0),
     LoadStmt("emu_filename"),
     LoadStmt("hardware_filename") >>

\* LpGateProgram loading the hardware files in both comprehensions.
LpGateProgram_LoadJobsTwice ==
  [i \in 1..Len(Geometries) |->
     Guard("emu_filesnames." \o Geometries[i],
           "lp-gate-" \o Geometries[i] \o "-emulation.json", "run", 0)]
  \o [i \in 1..Len(Geometries) |->
     Guard("filenames." \o Geometries[i],
           "lp-gate-" \o Geometries[i] \o "-job.json", "run_async", 2)]
  \o [i \in 1..Len(Geometries) |-> LoadStmt("filenames." \o Geometries[i])]
  \o [i \in 1..Len(Geometries) |-> LoadStmt("filenames." \o Geometries[i])]

\* Two loops over the geometry names, each filling a dict of file names,
\* then two comprehensions loading every file of each dict.
LpGateProgram ==
  [i \in 1..Len(Geometries) |->
     Guard("emu_filesnames." \o Geometries[i],
           "lp-gate-" \o Geometries[i] \o "-emulation.json", "run", 0)]
  \o [i \in 1..Len(Geometries) |->
     Guard("filenames." \o Geometries[i],
           "lp-gate-" \o Geometries[i] \o "-job.json", "run_async", 2)]
  \o [i \in 1..Len(Geometries) |-> LoadStmt("emu_filesnames." \o Geometries[i])]
  \o [i \in 1..Len(Geometries) |-> LoadStmt("filenames." \o Geometries[i])]

LatticeGaugeProgram ==
  << MkData,
     DetuningStmt,
     Guard("emu_filename", "lgt-emulation.json", "run", 0),
     Guard("filename", "lgt-job.json", "run_async", 0),
     LoadStmt("emu_filename"),
     LoadStmt("filename") >>

MisUdgProgram ==
  << MkData,
     Guard("filename", "MIS-UDG-job.json", "run_async", 0),
     LoadStmt("filename") >>

Program(s) ==
  CASE s = TimeSweep -> TimeSweepProgram
    [] s = Rabi -> RabiProgram
    [] s = LpGate -> LpGateProgram
    [] s = LatticeGauge -> LatticeGaugeProgram
    [] s = MisUdg -> MisUdgProgram

\* The path a guard statement computes:
\* os.path.join(os.path.abspath(""), "data", name).
ResultPath(st) == Join(Cwd, << "data", st.name >>)

\* The result files of a script.
ResultPaths(s) ==
  { ResultPath(Program(s)[i]) :
      i \in { j \in 1..Len(Program(s)) : Program(s)[j].op = "guard" } }

\* What save writes for the batch that run or run_async returned in the
\* n-th run of the script.
SavedText(job, n, indent) ==
  Serialized(JObj([batch |-> JStr(job), run |-> JInt(n)]), indent)

\* A job file downloaded into data, as the scripts' introduction suggests.
Downloaded == SavedText("download", 0, 0)

\* [v] * n
Repeat(v, n) == [i \in 1..n |-> v]

\* The indices range(start, stop, step) of a slice, in order.
RECURSIVE RangeIdx(_, _, _)
RangeIdx(start, stop, step) ==
  IF start >= stop THEN << >>
  ELSE << start >> \o RangeIdx(start + step, stop, step)

\* list[start:stop:step] = values: an extended slice takes exactly as many
\* values as it has indices, or raises ValueError.
SetSlice(list, start, stop, step, values) ==
  LET ix == RangeIdx(start, stop, step) IN
  IF Len(ix) # Len(values) THEN Raise("ValueError")
  ELSE JArr([i \in 1..Len(list) |->
              IF \E k \in 1..Len(ix) : ix[k] = i - 1
              THEN values[CHOOSE k \in 1..Len(ix) : ix[k] = i - 1]
              ELSE list[i]])

\* list[i] = v, for an index counted from 0.
SetItem(list, i, v) ==
  IF i >= Len(list) THEN Raise("IndexError")
  ELSE JArr([list EXCEPT ![i + 1] = v])

N_atom == 13

\* DetuningRatio with the slice starting at index 0.
DetuningRatio_SliceFromZero ==
  LET sliced == SetSlice(Repeat(0, N_atom), 0, N_atom - 1, 2, << 1, 1, 1, 1, 1, 1 >>)
  IN IF IsRaise(sliced) THEN sliced
     ELSE SetItem(sliced.arr, (N_atom - 1) \div 2, 1)

\* example-6-lattice-gauge-theory.py, lines 81-83.
DetuningRatio ==
  LET sliced == SetSlice(Repeat(0, N_atom), 1, N_atom - 1, 2, << 1, 1, 1, 1, 1, 1 >>)
  IN IF IsRaise(sliced) THEN sliced
     ELSE SetItem(sliced.arr, (N_atom - 1) \div 2, 1)

\* The statement the run is at.
Cur == Program(script)[stmt]

AtStmt(op) ==
  /\ pc = "stmt"
  /\ stmt <= Len(Program(script))
  /\ Cur.op = op

\* Control moves to the next statement, or the script ends.
Advance ==
  /\ stmt' = stmt + 1
  /\ pc' = IF stmt = Len(Program(script)) THEN "done" ELSE "stmt"

InitEx ==
  /\ script \in ExampleScripts
  /\ argv = << script >>
  /\ \E data \in { NoFile, Dir, File(StaleText) } :
       \E files \in [ResultPaths(script) -> { NoFile, File(Downloaded), File(BadText) }] :
         /\ ~ IsDir(data) => \A p \in ResultPaths(script) : files[p] = NoFile
         /\ fs = [p \in { DataDir } \cup ResultPaths(script) |->
                    IF p = DataDir THEN data ELSE files[p]]
  /\ pc = "stmt"
  /\ stmt = 1
  /\ filenames = << >>
  /\ detuning_ratio = << >>
  /\ counts = << >>
  /\ probabilities = JNull
  /\ src = JNull
  /\ tasks = JNull
  /\ idx = 0
  /\ new_tasks = << >>
  /\ new_future = JNull
  /\ a = JNull
  /\ exc = JNull
  /\ run = 1
  /\ fs0 = fs
  /\ io = << >>
  /\ outputs = << >>

\* ImportCell calling os.mkdir("data") without the test.
ImportCell_Unconditional ==
  /\ AtStmt("mkdata")
  /\ io' = Append(io, [op |-> "mkdir", path |-> DataDir,
                       result |-> ~ fs[DataDir].exists])
  /\ IF fs[DataDir].exists
     THEN Fail(Raise("FileExistsError")) /\ UNCHANGED << fs, stmt >>
     ELSE /\ fs' = [fs EXCEPT ![DataDir] = Dir]
          /\ Advance
          /\ UNCHANGED exc
  /\ UNCHANGED << transformVars, argv, run, fs0, script, filenames,
                  detuning_ratio, counts, probabilities >>

\* The end of the import cell:
\*   if not os.path.isdir("data"):
\*       os.mkdir("data")
ImportCell ==
  /\ AtStmt("mkdata")
  /\ IF IsDir(fs[DataDir])
     THEN /\ io' = Append(io, [op |-> "isdir", path |-> DataDir, result |-> TRUE])
          /\ Advance
          /\ UNCHANGED << fs, exc >>
     ELSE /\ io' = io \o << [op |-> "isdir", path |-> DataDir, result |-> FALSE],
                            [op |-> "mkdir", path |-> DataDir,
                             result |-> ~ fs[DataDir].exists] >>
          /\ IF fs[DataDir].exists
             THEN Fail(Raise("FileExistsError")) /\ UNCHANGED << fs, stmt >>
             ELSE /\ fs' = [fs EXCEPT ![DataDir] = Dir]
                  /\ Advance
                  /\ UNCHANGED exc
  /\ UNCHANGED << transformVars, argv, run, fs0, script, filenames,
                  detuning_ratio, counts, probabilities >>

\* The cell that builds detuning_ratio.
DetuningRatioCell ==
  /\ AtStmt("detuning_ratio")
  /\ IF IsRaise(DetuningRatio)
     THEN Fail(DetuningRatio) /\ UNCHANGED << stmt, detuning_ratio >>
     ELSE /\ detuning_ratio' = DetuningRatio.arr
          /\ Advance
          /\ UNCHANGED exc
  /\ UNCHANGED << transformVars, argv, run, fs, fs0, io, script, filenames,
                  counts, probabilities >>

\* CheckFile with the test the wrong way round: if os.path.isfile(filename).
CheckFile_Inverted ==
  /\ AtStmt("guard")
  /\ LET path == ResultPath(Cur) IN
     /\ filenames' = (Cur.var :> path) @@ filenames
     /\ io' = Append(io, [op |-> "isfile", path |-> path,
                          result |-> IsFile(fs[path])])
     /\ IF ~ IsFile(fs[path])
        THEN Advance
        ELSE pc' = "run" /\ UNCHANGED stmt
  /\ UNCHANGED << transformVars, argv, run, fs, fs0, exc, script,
                  detuning_ratio, counts, probabilities >>

\* The file name is assigned and tested:
\*   filename = os.path.join(os.path.abspath(""), "data", name)
\*   if not os.path.isfile(filename):
CheckFile ==
  /\ AtStmt("guard")
  /\ LET path == ResultPath(Cur) IN
     /\ filenames' = (Cur.var :> path) @@ filenames
     /\ io' = Append(io, [op |-> "isfile", path |-> path,
                          result |-> IsFile(fs[path])])
     /\ IF IsFile(fs[path])
        THEN Advance
        ELSE pc' = "run" /\ UNCHANGED stmt
  /\ UNCHANGED << transformVars, argv, run, fs, fs0, exc, script,
                  detuning_ratio, counts, probabilities >>

\* The emulator run or the hardware submission inside the guard; it returns
\* a batch or raises.
RunJob ==
  /\ pc = "run"
  /\ \E ok \in BOOLEAN :
       /\ io' = Append(io, [op |-> Cur.job, path |-> filenames[Cur.var],
                            result |-> ok])
       /\ IF ok
          THEN pc' = "save" /\ UNCHANGED exc
          ELSE Fail(Raise("SubmissionError"))
  /\ UNCHANGED << transformVars, argv, run, fs, fs0, script, stmt, filenames,
                  detuning_ratio, counts, probabilities >>

\* save(batch, filename): the file is opened for writing, which needs its
\* directory, and the batch is written.
Save ==
  /\ pc = "save"
  /\ LET path == filenames[Cur.var]
         dir == fs[Parent(path)]
     IN /\ io' = Append(io, [op |-> "save", path |-> path, result |-> IsDir(dir)])
        /\ IF IsDir(dir)
           THEN /\ fs' = [fs EXCEPT ![path] = File(SavedText(Cur.job, run, Cur.indent))]
                /\ Advance
                /\ UNCHANGED exc
           ELSE /\ Fail(Raise(IF dir.exists THEN "NotADirectoryError"
                              ELSE "FileNotFoundError"))
                /\ UNCHANGED << fs, stmt >>
  /\ UNCHANGED << transformVars, argv, run, fs0, script, filenames,
                  detuning_ratio, counts, probabilities >>

\* load(filename)
Load ==
  /\ AtStmt("load")
  /\ IF Cur.var \notin DOMAIN filenames
     THEN Fail(Raise("NameError")) /\ UNCHANGED << stmt, io >>
     ELSE LET path == filenames[Cur.var]
              doc == IF IsFile(fs[path]) THEN Parse(fs[path].text)
                     ELSE Raise("FileNotFoundError")
          IN /\ io' = Append(io, [op |-> "load", path |-> path,
                                  result |-> ~ IsRaise(doc)])
             /\ IF IsRaise(doc)
                THEN Fail(doc) /\ UNCHANGED stmt
                ELSE Advance /\ UNCHANGED exc
  /\ UNCHANGED << transformVars, argv, run, fs, fs0, script, filenames,
                  detuning_ratio, counts, probabilities >>

\* The script is run again in the same directory; one of its result files
\* may have been removed since.
Rerun ==
  /\ script \in ExampleScripts
  /\ pc \in { "done", "failed" }
  /\ run < MaxRuns
  /\ run' = run + 1
  /\ pc' = "stmt"
  /\ stmt' = 1
  /\ filenames' = << >>
  /\ detuning_ratio' = << >>
  /\ exc' = JNull
  /\ \E removed \in { {} } \cup { { p } : p \in ResultPaths(script) } :
       fs' = [p \in DOMAIN fs |-> IF p \in removed THEN NoFile ELSE fs[p]]
  /\ fs0' = fs'
  /\ io' = << >>
  /\ UNCHANGED << transformVars, argv, script, counts, probabilities >>

NextEx ==
  \/ ImportCell
  \/ DetuningRatioCell
  \/ CheckFile
  \/ RunJob
  \/ Save
  \/ Load
  \/ Rerun

SpecEx == InitEx /\ [][NextEx]_vars

\* ------------------------------------------------------------------------
\* Vocabulary of the properties of the example scripts
\* ------------------------------------------------------------------------
\* The positions in this run's call log of the calls of the given kinds on
\* a path.
Calls(ops, path) == { k \in DOMAIN io : io[k].op \in ops /\ io[k].path = path }

Jobs == { "run", "run_async" }

\* The paths this run has tested with isfile, and those it has loaded.
Checked == { io[k].path : k \in { j \in DOMAIN io : io[j].op = "isfile" } }

Loaded == { io[k].path : k \in { j \in DOMAIN io : io[j].op = "load" } }

\* The script creates the data directory in its import cell.
CreatesData == script \in ExampleScripts /\ Program(script)[1] = MkData

\* C23: an emulator run or a hardware submission comes right after an
\* isfile test of its result file that returned False, and the file did not
\* exist when the run of the script started; a file that existed at its
\* test is followed by no run, submission or save and keeps its content, so
\* a further run of the script submits nothing for a file an earlier run
\* saved.
C23_RunOnlyWhenFileAbsent ==
  /\ \A k \in DOMAIN io :
       io[k].op \in Jobs =>
         /\ k > 1
         /\ io[k - 1] = [op |-> "isfile", path |-> io[k].path, result |-> FALSE]
         /\ ~ IsFile(fs0[io[k].path])
  /\ \A k \in DOMAIN io :
       (io[k].op = "isfile" /\ io[k].result) =>
         /\ Calls(Jobs \cup { "save" }, io[k].path) = {}
         /\ fs[io[k].path] = fs0[io[k].path]
  /\ \A p \in ResultPaths(script) :
       (\E j \in Jobs, n \in 1..(run - 1), ind \in { 0, 2 } :
          fs0[p] = File(SavedText(j, n, ind))) =>
         /\ Calls(Jobs, p) = {}
         /\ fs[p] = fs0[p]

C23_Witness ==
  /\ script = TimeSweep
  /\ run = 2
  /\ pc = "done"
  /\ fs0[Join(DataDir, << "time-sweep-job.json" >>)] = File(SavedText("run_async", 1, 0))
  /\ fs[Join(DataDir, << "time-sweep-job.json" >>)] = File(SavedText("run_async", 1, 0))
  /\ Calls({ "isfile" }, Join(DataDir, << "time-sweep-job.json" >>)) # {}
  /\ \A k \in DOMAIN io : io[k].op # "run_async"

\* C24: every load of a result file comes after the isfile test of that
\* file and after every save of it in the run; the file exists at the load
\* when it existed at the start of the run or a save of it succeeded, so no
\* load fails for a missing file; when a script has run to its end the files
\* it loaded are exactly the files it tested, in example-2-lp-gate the
\* emulation and the job file of every geometry name.
C24_LoadAfterCheckAndSave ==
  /\ \A k \in DOMAIN io :
       io[k].op = "load" =>
         /\ \E j \in Calls({ "isfile" }, io[k].path) : j < k
         /\ \A j \in Calls({ "save" }, io[k].path) : j < k
         /\ (IsFile(fs0[io[k].path])
               \/ \E j \in Calls({ "save" }, io[k].path) : io[j].result)
              => IsFile(fs[io[k].path])
         /\ IsFile(fs[io[k].path])
         /\ ~ io[k].result => exc = Raise("JSONDecodeError")
  /\ (pc = "done" /\ script \in ExampleScripts) =>
       /\ Loaded = Checked
       /\ Loaded = ResultPaths(script)
  /\ (pc = "done" /\ script = LpGate) =>
       Loaded = { Join(DataDir, << "lp-gate-" \o g \o kind >>) :
                    g \in { "1-atom", "2-atom" },
                    kind \in { "-emulation.json", "-job.json" } }

C24_Witness ==
  /\ script = LpGate
  /\ pc = "done"
  /\ Cardinality(Loaded) = 4
  /\ Calls({ "save" }, Join(DataDir, << "lp-gate-2-atom-job.json" >>)) # {}
  /\ ~ IsFile(fs0[Join(DataDir, << "lp-gate-2-atom-job.json" >>)])
  /\ IsFile(fs0[Join(DataDir, << "lp-gate-1-atom-emulation.json" >>)])

AdjacentOnes ==
  { i \in 0..(Len(detuning_ratio) - 2) :
      detuning_ratio[i + 1] = 1 /\ detuning_ratio[i + 2] = 1 }

\* C28: in the lattice-gauge-theory example, once the cell that builds it
\* has run, the detuning scaling list has 13 entries, one per atom, each 0
\* or 1; counted from 0, the entries at the odd indices 1, 3, ..., 11 and at
\* the middle index 6 are 1 and the others 0, so the only adjacent 1s are
\* the sites 5, 6, 7.  Building the list raises no exception.
C28_DetuningRatioPattern ==
  script = LatticeGauge =>
    /\ exc \notin { Raise("ValueError"), Raise("IndexError") }
    /\ stmt > 2 =>
         /\ Len(detuning_ratio) = N_atom
         /\ Len(detuning_ratio) = 13
         /\ \A i \in 0..12 : detuning_ratio[i + 1] \in { 0, 1 }
         /\ \A i \in 0..12 :
              detuning_ratio[i + 1] = 1 <=> (i \in { 1, 3, 5, 7, 9, 11 } \/ i = 6)
         /\ AdjacentOnes = { 5, 6 }

C28_Witness ==
  /\ script = LatticeGauge
  /\ pc = "done"
  /\ detuning_ratio = << 0, 1, 0, 1, 0, 1, 1, 1, 0, 1, 0, 1, 0 >>

\* ------------------------------------------------------------------------
\* The probability functions of the example scripts
\* ------------------------------------------------------------------------
\* Bounds of the reports: the number of task results and the shots of one.
MaxResults == 2

MaxShots == 2

\* The bitstring of the Z2 phase on 11 atoms.
Z2 == "01010101010"

\* The bitstrings a task result of a two-atom program may hold, with one
\* that is none of 00, 01, 10, 11; and those of the 11-atom chain: the Z2
\* bitstring, its complement and the all-ground bitstring.
RydbergBitstrings == { "00", "01", "10", "11", "000" }

Z2Bitstrings == { Z2, "10101010101", "11111111111" }

\* sum(d.values())
RECURSIVE SumValues(_)
SumValues(d) ==
  IF DOMAIN d = {} THEN 0
  ELSE LET k == CHOOSE x \in DOMAIN d : TRUE
       IN d[k] + SumValues([x \in DOMAIN d \ { k } |-> d[x]])

\* The task results over a set of bitstrings: each maps the bitstrings that
\* were measured to the number of shots that gave them.
TaskResults(bitstrings) ==
  { d \in UNION { [D -> 1..MaxShots] : D \in SUBSET bitstrings } :
      SumValues(d) <= MaxShots }

\* The counts of the reports a script's probability function is given.
Reports(bitstrings) == SeqsUpTo(TaskResults(bitstrings), MaxResults)

\* d.get(k, default) of a dict of counts.
GetOr(d, k, default) == IF k \in DOMAIN d THEN d[k] ELSE default

RECURSIVE Gcd(_, _)
Gcd(m, n) == IF n = 0 THEN m ELSE Gcd(n, m % n)

\* n / d: the quotient as a number, held as a fraction in lowest terms, or
\* ZeroDivisionError.
Divide(n, d) ==
  IF d = 0 THEN Raise("ZeroDivisionError")
  ELSE [num |-> n \div Gcd(n, d), den |-> d \div Gcd(n, d)]

\* rydberg_state_probabilities with the lists of no and of two Rydberg
\* atoms exchanged.
rydberg_state_probabilities_Swapped(emu_counts) ==
  LET total_shots(i) == SumValues(emu_counts[i])
      p0 == [i \in DOMAIN emu_counts |->
               Divide(GetOr(emu_counts[i], "00", 0), total_shots(i))]
      p1 == [i \in DOMAIN emu_counts |->
               Divide(GetOr(emu_counts[i], "10", 0) + GetOr(emu_counts[i], "01", 0),
                      total_shots(i))]
      p2 == [i \in DOMAIN emu_counts |->
               Divide(GetOr(emu_counts[i], "11", 0), total_shots(i))]
      raised == FirstRaise(p0)
  IN IF raised # JNull THEN raised
     ELSE ("0" :> p0) @@ ("1" :> p1) @@ ("2" :> p2)

\* example-2-two-qubit-adiabatic.py, lines 139-153: every task result
\* appends one probability to each of the three lists; the first division
\* by a total of 0 raises.
rydberg_state_probabilities(emu_counts) ==
  LET total_shots(i) == SumValues(emu_counts[i])
      p0 == [i \in DOMAIN emu_counts |->
               Divide(GetOr(emu_counts[i], "11", 0), total_shots(i))]
      p1 == [i \in DOMAIN emu_counts |->
               Divide(GetOr(emu_counts[i], "10", 0) + GetOr(emu_counts[i], "01", 0),
                      total_shots(i))]
      p2 == [i \in DOMAIN emu_counts |->
               Divide(GetOr(emu_counts[i], "00", 0), total_shots(i))]
      raised == FirstRaise(p0)
  IN IF raised # JNull THEN raised
     ELSE ("0" :> p0) @@ ("1" :> p1) @@ ("2" :> p2)

\* example-3-time-sweep.py, lines 174-181: count["01010101010"] is a
\* subscript, evaluated before the division.
get_z2_probabilities(report) ==
  LET z2_probability(count) ==
        IF Z2 \notin DOMAIN count THEN Raise("KeyError")
        ELSE Divide(count[Z2], SumValues(count))
      z2_probabilities == [i \in DOMAIN report |-> z2_probability(report[i])]
      raised == FirstRaise(z2_probabilities)
  IN IF raised # JNull THEN raised ELSE JArr(z2_probabilities)

\* example-4-quantum-scar-dynamics.py, lines 130-137: the same function
\* with count.get("01010101010", 0).
get_z2_probabilities_scar(report) ==
  LET z2_probabilities ==
        [i \in DOMAIN report |->
           Divide(GetOr(report[i], Z2, 0), SumValues(report[i]))]
      raised == FirstRaise(z2_probabilities)
  IN IF raised # JNull THEN raised ELSE JArr(z2_probabilities)

TwoQubit == "docs/examples/example-2-two-qubit-adiabatic.py"

Nonequilibrium ==
  "docs/docs/examples/example-2-nonequilibrium-dynamics-blockade-radius.py"

TimeSweepDocs == "docs/docs/examples/example-3-time-sweep.py"

QuantumScar == "docs/docs/examples/example-4-quantum-scar-dynamics.py"

RydbergScripts == { TwoQubit, Nonequilibrium }

Z2Scripts == { TimeSweep, TimeSweepDocs, QuantumScar }

\* A script is about to call its probability function on the counts of a
\* report.
InitCounts ==
  /\ script \in RydbergScripts \cup Z2Scripts
  /\ argv = << script >>
  /\ counts \in Reports(IF script \in RydbergScripts THEN RydbergBitstrings
                         ELSE Z2Bitstrings)
  /\ probabilities = JNull
  /\ pc = "call"
  /\ stmt = 0
  /\ filenames = << >>
  /\ detuning_ratio = << >>
  /\ fs = << >>
  /\ fs0 = fs
  /\ io = << >>
  /\ src = JNull
  /\ tasks = JNull
  /\ idx = 0
  /\ new_tasks = << >>
  /\ new_future = JNull
  /\ a = JNull
  /\ exc = JNull
  /\ run = 1
  /\ outputs = << >>

\* The call returns its value or ends the script with its exception.
Returns(value) ==
  /\ IF IsRaise(value)
     THEN Fail(value) /\ UNCHANGED probabilities
     ELSE probabilities' = value /\ pc' = "returned" /\ UNCHANGED exc
  /\ UNCHANGED << transformVars, argv, run, fs, fs0, io, script, stmt, filenames,
                  detuning_ratio, counts >>

CallRydbergStateProbabilities ==
  /\ pc = "call"
  /\ script \in RydbergScripts
  /\ Returns(rydberg_state_probabilities(counts))

CallGetZ2Probabilities ==
  /\ pc = "call"
  /\ script \in { TimeSweep, TimeSweepDocs }
  /\ Returns(get_z2_probabilities(counts))

CallGetZ2ProbabilitiesScar ==
  /\ pc = "call"
  /\ script = QuantumScar
  /\ Returns(get_z2_probabilities_scar(counts))

NextCounts ==
  \/ CallRydbergStateProbabilities
  \/ CallGetZ2Probabilities
  \/ CallGetZ2ProbabilitiesScar

SpecCounts == InitCounts /\ [][NextCounts]_vars

\* ------------------------------------------------------------------------
\* Vocabulary of the properties of the probability functions
\* ------------------------------------------------------------------------
\* The number of shots of a task result that gave bitstring b, 0 when b was
\* not measured, and the number of all its shots.
Count(t, b) == SumValues([x \in DOMAIN t \cap { b } |-> t[x]])

Total(t) == SumValues(t)

\* The number p is the quotient n / d.
IsQuotient(p, n, d) == p.den > 0 /\ d > 0 /\ p.num * d = n * p.den

\* The numbers p, q and r add up to 1.
SumToOne(p, q, r) ==
  p.num * q.den * r.den + q.num * p.den * r.den + r.num * p.den * q.den
    = p.den * q.den * r.den

\* What rydberg_state_probabilities is to return for the counts.
RydbergResult ==
  /\ DOMAIN probabilities = { "0", "1", "2" }
  /\ \A key \in { "0", "1", "2" } : Len(probabilities[key]) = Len(counts)
  /\ \A i \in DOMAIN counts :
       /\ IsQuotient(probabilities["2"][i], Count(counts[i], "00"), Total(counts[i]))
       /\ IsQuotient(probabilities["1"][i],
                     Count(counts[i], "10") + Count(counts[i], "01"),
                     Total(counts[i]))
       /\ IsQuotient(probabilities["0"][i], Count(counts[i], "11"), Total(counts[i]))
       /\ (DOMAIN counts[i] \subseteq { "00", "01", "10", "11" } /\ Total(counts[i]) > 0) =>
            /\ Count(counts[i], "00") + Count(counts[i], "10")
                 + Count(counts[i], "01") + Count(counts[i], "11") = Total(counts[i])
            /\ SumToOne(probabilities["0"][i], probabilities["1"][i],
                        probabilities["2"][i])

\* C26 as stated: rydberg_state_probabilities returns, for every sequence of
\* task results, the three lists with one entry per task result, in task
\* order: under "2" count("00")/total, under "1" (count("10")+count("01"))/total,
\* under "0" count("11")/total, absent bitstrings counting 0; for a task
\* result with bitstrings among 00, 01, 10, 11 and positive total the three
\* numerators add up to the total.
C26_AlwaysReturns ==
  (script \in RydbergScripts /\ pc # "call") =>
    /\ pc = "returned"
    /\ RydbergResult

\* C26, amended: the call returns exactly when every task result has a
\* positive total, and then returns the three lists as stated; a task
\* result with total 0 makes the call raise ZeroDivisionError.
C26_RydbergStateProbabilities ==
  (script \in RydbergScripts /\ pc # "call") =>
    /\ pc = "returned" <=> \A i \in DOMAIN counts : Total(counts[i]) > 0
    /\ pc = "returned" => RydbergResult
    /\ pc # "returned" => pc = "failed" /\ exc = Raise("ZeroDivisionError")

C26_Witness ==
  /\ script = TwoQubit
  /\ pc = "returned"
  /\ counts = << ("00" :> 1) @@ ("10" :> 1), ("11" :> 2) >>
  /\ probabilities["2"] = << [num |-> 1, den |-> 2], [num |-> 0, den |-> 1] >>
  /\ probabilities["1"] = << [num |-> 1, den |-> 2], [num |-> 0, den |-> 1] >>
  /\ probabilities["0"] = << [num |-> 0, den |-> 1], [num |-> 1, den |-> 1] >>

\* C27: for every report whose tasks all have shots, get_z2_probabilities
\* returns one probability per task, in task order, the share of the shots
\* that gave the Z2 bitstring; for a task that never measured it the
\* probability is 0.
C27_OneProbabilityPerTask ==
  (/\ script \in Z2Scripts
   /\ pc # "call"
   /\ \A i \in DOMAIN counts : Total(counts[i]) > 0) =>
    /\ pc = "returned"
    /\ Len(probabilities.arr) = Len(counts)
    /\ \A i \in DOMAIN counts :
         /\ IsQuotient(probabilities.arr[i], Count(counts[i], Z2), Total(counts[i]))
         /\ Z2 \notin DOMAIN counts[i] => probabilities.arr[i] = [num |-> 0, den |-> 1]

====
